---------------------------- MODULE Spec2Model ----------------------------
(***************************************************************************)
(* EcoTwinAPIClient (ecotwinclient.py): OAuth2 client-credentials token    *)
(* acquisition through a token manager, forecast construction and the      *)
(* three authenticated requests of the ecoTwin API v2.                     *)
(*                                                                         *)
(* The client is single-threaded and synchronous: every public or private  *)
(* method is one action.  The network is the environment: each action      *)
(* draws the response the identity endpoint and the API endpoint would     *)
(* give, and uses it only if the method issues that request.               *)
(***************************************************************************)
EXTENDS Integers, Sequences, FiniteSets, TLC

VARIABLES
    token_store,   \* the token manager's cached token record, or None
    now,           \* the wall clock, time.time(), in whole seconds
    ticks,         \* how many times the clock has advanced
    call,          \* the last method called, its arguments, the cache and clock it saw
    sent,          \* the HTTP requests that call issued, in order, with their responses
    stored,        \* the records that call handed to token_manager.store_token
    result         \* how that call ended: [exc, value]

vars == <<token_store, now, ticks, call, sent, stored, result>>

---------------------------------------------------------------------------
(* Bounds of the model *)

MaxTicks == 2

ClockSteps == {1, 3600}

(* Program constants *)

DaySeconds == 86400

DefaultInterval == 300

---------------------------------------------------------------------------
(* Python values *)

None == [none |-> TRUE]

\* None and the empty dict are false
Truthy(x) == x # None /\ DOMAIN x # {}

\* d[k] = v on a dict
Put(d, k, v) == [x \in (DOMAIN d) \cup {k} |-> IF x = k THEN v ELSE d[x]]

\* d.get(k, default)
Get(d, k, default) == IF k \in DOMAIN d THEN d[k] ELSE default

\* int(s) of a decimal string, the string given as its sequence of digits
RECURSIVE int(_)
int(s) ==
    IF s = <<>> THEN 0
    ELSE int(SubSeq(s, 1, Len(s) - 1)) * 10 + s[Len(s)]

\* the literal '3600' of _get_access_token
DefaultExpiresIn == <<3, 6, 0, 0>>

---------------------------------------------------------------------------
(* How a method ends: the exception it raises ("none" when it returns),    *)
(* the value it returns, the token manager's cache afterwards, the HTTP    *)
(* requests it issued and the records it stored.                           *)

Ret(value, store, reqs, recs) ==
    [exc |-> "none", value |-> value, store |-> store, sent |-> reqs, stored |-> recs]

Raise(exc, value, store, reqs, recs) ==
    [exc |-> exc, value |-> value, store |-> store, sent |-> reqs, stored |-> recs]

---------------------------------------------------------------------------
(* The token manager (tokenmanager.SecureTokenManager)                     *)

Credentials == [client_id |-> "id", client_secret |-> "secret", resource |-> "res"]

get_credentials == Credentials

\* the cached record, or None when nothing is cached
get_token(store) == store

\* replaces the cached record
store_token(store, token_data) == token_data

---------------------------------------------------------------------------
(* requests: Response.raise_for_status raises HTTPError for 4xx and 5xx    *)

raise_for_status_4xx(status) == status >= 400 /\ status < 500

raise_for_status(status) == status >= 400 /\ status < 600

IdentityUrl == <<"https://login.microsoftonline.com/privagroup.onmicrosoft.com/oauth2/token">>

IdentityRequest(response) ==
    [ method   |-> "POST",
      url      |-> IdentityUrl,
      headers  |-> [ContentType |-> "application/x-www-form-urlencoded"],
      body     |-> [ grant_type    |-> "client_credentials",
                     client_id     |-> get_credentials.client_id,
                     client_secret |-> get_credentials.client_secret,
                     resource      |-> get_credentials.resource ],
      response |-> response ]

---------------------------------------------------------------------------
(* _get_access_token, lines 41-66: the exchange with the identity endpoint *)

expires_at_no_clock(time, token_data) ==
    int(Get(token_data, "expires_in", DefaultExpiresIn))

expires_at(time, token_data) ==
    time + int(Get(token_data, "expires_in", DefaultExpiresIn))

fetch_new_token_unchecked(store, time, response) ==
    LET reqs == <<IdentityRequest(response)>> IN
    IF ~response.body.isjson
    THEN Raise("JSONDecodeError", None, store, reqs, <<>>)
    ELSE LET token_data == Put(response.body.data, "expires_at",
                               expires_at(time, response.body.data))
             after == store_token(store, token_data)
         IN  IF "access_token" \in DOMAIN token_data
             THEN Ret(token_data["access_token"], after, reqs, <<token_data>>)
             ELSE Raise("KeyError", "access_token", after, reqs, <<token_data>>)

fetch_new_token(store, time, response) ==
    LET reqs == <<IdentityRequest(response)>> IN
    IF raise_for_status(response.status)
    THEN Raise("HTTPError", response.status, store, reqs, <<>>)
    ELSE IF ~response.body.isjson
    THEN Raise("JSONDecodeError", None, store, reqs, <<>>)
    ELSE LET token_data == Put(response.body.data, "expires_at",
                               expires_at(time, response.body.data))
             after == store_token(store, token_data)
         IN  IF "access_token" \in DOMAIN token_data
             THEN Ret(token_data["access_token"], after, reqs, <<token_data>>)
             ELSE Raise("KeyError", "access_token", after, reqs, <<token_data>>)

_get_access_token(store, time, response) ==
    LET token_data == get_token(store) IN
    IF Truthy(token_data)
    THEN IF "access_token" \in DOMAIN token_data
         THEN Ret(token_data["access_token"], store, <<>>, <<>>)
         ELSE Raise("KeyError", "access_token", store, <<>>, <<>>)
    ELSE fetch_new_token(store, time, response)

---------------------------------------------------------------------------
(* _ensure_valid_token                                                     *)

ensure_valid_token_always_fetch(store, time, response) ==
    fetch_new_token(store, time, response)

_ensure_valid_token(store, time, response) ==
    LET token_data == get_token(store) IN
    IF Truthy(token_data)
    THEN IF "access_token" \in DOMAIN token_data
         THEN Ret(token_data["access_token"], store, <<>>, <<>>)
         ELSE Raise("KeyError", "access_token", store, <<>>, <<>>)
    ELSE LET got == _get_access_token(store, time, response) IN
         IF got.exc # "none"
         THEN got
         ELSE LET again == get_token(got.store) IN
              IF ~Truthy(again)
              THEN Raise("TypeError", None, got.store, got.sent, got.stored)
              ELSE IF "access_token" \in DOMAIN again
              THEN Ret(again["access_token"], got.store, got.sent, got.stored)
              ELSE Raise("KeyError", "access_token", got.store, got.sent, got.stored)

---------------------------------------------------------------------------
(* create_eco_forecast.  A dict is the sequence of its (key, value) items  *)
(* in iteration order.                                                     *)

min_length_plus_one(interval) == DaySeconds \div interval + 1

min_length(interval) == DaySeconds \div interval

\* the for loop of lines 92-94: the index of the item it raises on, 0 if none
RECURSIVE first_short(_, _, _)
first_short(items, i, least) ==
    IF i > Len(items) THEN 0
    ELSE IF Len(items[i][2]) < least THEN i
    ELSE first_short(items, i + 1, least)

create_eco_forecast(project_id, virtual_io_values, interval, time) ==
    LET least == min_length(interval)
        bad   == first_short(virtual_io_values, 1, least)
    IN  IF bad # 0
        THEN [ exc   |-> "ValueError",
               value |-> <<"VirtualIO ", virtual_io_values[bad][1],
                           " must have at least ", least, " values">> ]
        ELSE [ exc   |-> "none",
               value |-> [ header     |-> [ projectId |-> project_id,
                                            interval  |-> interval,
                                            start_t   |-> time ],
                           timeseries |-> [ y |-> virtual_io_values,
                                            n |-> <<>> ] ] ]

---------------------------------------------------------------------------
(* put_forecast, get_twin_status, get_all_twins_status                     *)

ApiBase == "https://energyoptimizer.azure-api.net/eco/v2"

forecast_url_always_check(eco_twin_id, check) ==
    <<ApiBase, "/twins/", eco_twin_id, "/forecast/external", "?check">>

forecast_url(eco_twin_id, check) ==
    LET url == <<ApiBase, "/twins/", eco_twin_id, "/forecast/external">> IN
    IF check THEN url \o <<"?check">> ELSE url

status_url(eco_twin_id) == <<ApiBase, "/twins/", eco_twin_id, "/status">>

all_status_url == <<ApiBase, "/status">>

Bearer(access_token) == <<"Bearer ", access_token>>

put_forecast(store, time, eco_twin_id, forecast, check, id_response, api_response) ==
    LET tok == _ensure_valid_token(store, time, id_response) IN
    IF tok.exc # "none" THEN tok
    ELSE LET req == [ method   |-> "PUT",
                      url      |-> forecast_url(eco_twin_id, check),
                      headers  |-> [ Authorization |-> Bearer(tok.value),
                                     ContentType   |-> "application/json" ],
                      body     |-> forecast,
                      response |-> api_response ]
             reqs == Append(tok.sent, req)
         IN  IF raise_for_status(api_response.status)
             THEN Raise("HTTPError", api_response.status, tok.store, reqs, tok.stored)
             ELSE Ret(api_response, tok.store, reqs, tok.stored)

get_json_retry(tok, url, api_response) ==
    LET req == [ method   |-> "GET",
                 url      |-> url,
                 headers  |-> [Authorization |-> Bearer(tok.value)],
                 body     |-> None,
                 response |-> api_response ]
    IN  IF raise_for_status(api_response.status)
        THEN Raise("HTTPError", api_response.status, tok.store,
                   tok.sent \o <<req, req>>, tok.stored)
        ELSE IF ~api_response.body.isjson
        THEN Raise("JSONDecodeError", None, tok.store, Append(tok.sent, req), tok.stored)
        ELSE Ret(api_response.body.data, tok.store, Append(tok.sent, req), tok.stored)

\* requests.get(url, headers), raise_for_status(), response.json()
get_json(tok, url, api_response) ==
    LET req == [ method   |-> "GET",
                 url      |-> url,
                 headers  |-> [Authorization |-> Bearer(tok.value)],
                 body     |-> None,
                 response |-> api_response ]
        reqs == Append(tok.sent, req)
    IN  IF raise_for_status(api_response.status)
        THEN Raise("HTTPError", api_response.status, tok.store, reqs, tok.stored)
        ELSE IF ~api_response.body.isjson
        THEN Raise("JSONDecodeError", None, tok.store, reqs, tok.stored)
        ELSE Ret(api_response.body.data, tok.store, reqs, tok.stored)

get_twin_status(store, time, eco_twin_id, id_response, api_response) ==
    LET tok == _ensure_valid_token(store, time, id_response) IN
    IF tok.exc # "none" THEN tok
    ELSE get_json(tok, status_url(eco_twin_id), api_response)

get_all_twins_status(store, time, id_response, api_response) ==
    LET tok == _ensure_valid_token(store, time, id_response) IN
    IF tok.exc # "none" THEN tok
    ELSE get_json(tok, all_status_url, api_response)

---------------------------------------------------------------------------
(* The inputs and the environment                                          *)

Tokens == {"tokA", "tokB"}

ExpiresIn == {<<1>>}

TwinIds == {"twin1", "twin2"}

NotJson == [isjson |-> FALSE, data |-> None]

Json(data) == [isjson |-> TRUE, data |-> data]

\* RFC 6749 5.1: a successful token response carries access_token, and
\* expires_in is optional
TokenBodies ==
    { Json([access_token |-> t]) : t \in Tokens }
    \cup { Json([access_token |-> t, expires_in |-> e]) : t \in Tokens, e \in ExpiresIn }

ErrorBody == Json([error |-> "invalid_client"])

\* The identity endpoint answers 200 with a token response, or 500 with an
\* error document; 300 Multiple Choices is a status that requests neither
\* follows (it has no Location) nor raises for, its body JSON or not.
IdentityResponses ==
    { [status |-> 200, body |-> b] : b \in TokenBodies }
    \cup { [status |-> 300, body |-> b] : b \in {ErrorBody, NotJson} }
    \cup { [status |-> 500, body |-> ErrorBody] }

ApiResponses ==
    { [status |-> 200, body |-> b] : b \in {NotJson, Json([state |-> "ok"])} }
    \cup { [status |-> 300, body |-> Json([state |-> "ok"])],
           [status |-> 500, body |-> NotJson] }

ChannelNames == {"a", "b"}

Lengths == {0, 1, 2, 287, 288, 289}

Intervals == {DefaultInterval, 50000, DaySeconds, 100000}

Values(n) == [i \in 1..n |-> 0]

\* the dicts of at most two channels, in every insertion order
Mappings ==
    {<<>>}
    \cup { <<<<c, Values(n)>>>> : c \in ChannelNames, n \in Lengths }
    \cup UNION { { <<<<c, Values(n)>>, <<d, Values(m)>>>> :
                     d \in ChannelNames \ {c}, n \in Lengths, m \in Lengths } :
                   c \in ChannelNames }

\* what a caller hands to put_forecast: any dict
ForecastInputs ==
    { create_eco_forecast("p1", <<<<"a", Values(1)>>>>, DaySeconds, 0).value }

---------------------------------------------------------------------------
(* The state machine                                                       *)

Init ==
    /\ token_store = None
    /\ now = 0
    /\ ticks = 0
    /\ call = [op |-> "__init__", args |-> None, store |-> None, time |-> 0]
    /\ sent = <<>>
    /\ stored = <<>>
    /\ result = [exc |-> "none", value |-> None]

Called(op, args) == [op |-> op, args |-> args, store |-> token_store, time |-> now]

Finish(r) ==
    /\ token_store' = r.store
    /\ sent' = r.sent
    /\ stored' = r.stored
    /\ result' = [exc |-> r.exc, value |-> r.value]
    /\ UNCHANGED <<now, ticks>>

GetAccessToken ==
    \E id_response \in IdentityResponses :
        /\ call' = Called("_get_access_token", None)
        /\ Finish(_get_access_token(token_store, now, id_response))

EnsureValidToken ==
    \E id_response \in IdentityResponses :
        /\ call' = Called("_ensure_valid_token", None)
        /\ Finish(_ensure_valid_token(token_store, now, id_response))

CreateEcoForecast ==
    \E virtual_io_values \in Mappings, interval \in Intervals :
        LET r == create_eco_forecast("p1", virtual_io_values, interval, now) IN
        /\ call' = Called("create_eco_forecast",
                          [ project_id |-> "p1",
                            virtual_io_values |-> virtual_io_values,
                            interval |-> interval ])
        /\ result' = r
        /\ sent' = <<>>
        /\ stored' = <<>>
        /\ UNCHANGED <<token_store, now, ticks>>

PutForecast ==
    \E eco_twin_id \in TwinIds, forecast \in ForecastInputs, check \in BOOLEAN,
       id_response \in IdentityResponses, api_response \in ApiResponses :
        /\ call' = Called("put_forecast",
                          [eco_twin_id |-> eco_twin_id, forecast |-> forecast,
                           check |-> check])
        /\ Finish(put_forecast(token_store, now, eco_twin_id, forecast, check,
                               id_response, api_response))

GetTwinStatus ==
    \E eco_twin_id \in TwinIds,
       id_response \in IdentityResponses, api_response \in ApiResponses :
        /\ call' = Called("get_twin_status", [eco_twin_id |-> eco_twin_id])
        /\ Finish(get_twin_status(token_store, now, eco_twin_id,
                                  id_response, api_response))

GetAllTwinsStatus ==
    \E id_response \in IdentityResponses, api_response \in ApiResponses :
        /\ call' = Called("get_all_twins_status", None)
        /\ Finish(get_all_twins_status(token_store, now, id_response, api_response))

\* time passes between calls
Tick ==
    \E d \in ClockSteps :
        /\ ticks < MaxTicks
        /\ now' = now + d
        /\ ticks' = ticks + 1
        /\ UNCHANGED <<token_store, call, sent, stored, result>>

\* the methods that use the token manager and the network
NextClient ==
    \/ GetAccessToken
    \/ EnsureValidToken
    \/ PutForecast
    \/ GetTwinStatus
    \/ GetAllTwinsStatus
    \/ Tick

\* create_eco_forecast reads the clock and nothing else of the client
NextForecast ==
    \/ CreateEcoForecast
    \/ Tick

Next == NextClient \/ NextForecast

Spec == Init /\ [][Next]_vars

SpecClient == Init /\ [][NextClient]_vars

SpecForecast == Init /\ [][NextForecast]_vars

---------------------------------------------------------------------------
(* Vocabulary of the properties                                            *)

ClientOps == {"put_forecast", "get_twin_status", "get_all_twins_status"}

TokenOps == ClientOps \cup {"_ensure_valid_token"}

Is2xx(status) == status \in 200..299

IsIdentity(req) == req.url = IdentityUrl

IsApi(req) == req.url # IdentityUrl

IsTokenRecord(rec) == Truthy(rec) /\ "access_token" \in DOMAIN rec

IdentityRequests == {i \in 1..Len(sent) : IsIdentity(sent[i])}

ApiRequests == {i \in 1..Len(sent) : IsApi(sent[i])}

IsHttpError(status) == status \in 400..599

Ceil(a, b) == (a + b - 1) \div b

Channels == call.args.virtual_io_values

\* the call handed a token out: _ensure_valid_token returned it, or a
\* request to the API carried it
TokenHandedOut ==
    \/ call.op = "_ensure_valid_token" /\ result.exc = "none"
    \/ call.op \in ClientOps /\ ApiRequests # {}

---------------------------------------------------------------------------
\* C1: a call that finds the cache empty or its record expired
\* (expires_at <= now) asks the identity endpoint first, and the token that
\* _ensure_valid_token returns or that a request carries has an expires_at
\* later than the time of the call.
C1_NoExpiredToken ==
    call.op \in TokenOps =>
        /\ (~Truthy(call.store) \/ call.store.expires_at <= call.time)
              => (sent # <<>> /\ IsIdentity(sent[1]))
        /\ TokenHandedOut
              => (IsTokenRecord(token_store) /\ token_store.expires_at > call.time)

\* C2: a put_forecast, get_twin_status or get_all_twins_status that starts
\* with a cached, non-expired token record sends nothing to the identity
\* endpoint, and its one request carries the cached access_token as bearer.
C2_TokenReuse ==
    ( /\ call.op \in ClientOps
      /\ IsTokenRecord(call.store)
      /\ call.store.expires_at > call.time )
    => /\ IdentityRequests = {}
       /\ Len(sent) = 1
       /\ sent[1].headers.Authorization = <<"Bearer ", call.store.access_token>>
       /\ stored = <<>>
       /\ token_store = call.store

C2_Witness ==
    /\ call.op = "get_twin_status"
    /\ IsTokenRecord(call.store)
    /\ call.store.expires_at > call.time
    /\ call.time > 0
    /\ result.exc = "none"

\* C3: every value sequence of a forecast that create_eco_forecast returns
\* has at least ceil(86400 / interval) values.
C3_FullDay ==
    (call.op = "create_eco_forecast" /\ result.exc = "none")
    => \A i \in 1..Len(result.value.timeseries.y) :
          Len(result.value.timeseries.y[i][2]) >= Ceil(86400, result.value.header.interval)

\* C4: at interval 300 create_eco_forecast raises the validation error when
\* some channel has 287 values or fewer, and returns the forecast of the
\* given channels when every channel has 288 values or more.
C4_Interval300 ==
    (call.op = "create_eco_forecast" /\ call.args.interval = 300)
    => IF \E i \in 1..Len(Channels) : Len(Channels[i][2]) <= 287
       THEN result.exc = "ValueError"
       ELSE /\ result.exc = "none"
            /\ result.value.timeseries.y = Channels
            /\ result.value.header.interval = 300

C4_Witness ==
    /\ call.op = "create_eco_forecast"
    /\ call.args.interval = 300
    /\ Len(Channels) = 2
    /\ Len(Channels[1][2]) = 288
    /\ Len(Channels[2][2]) = 289
    /\ result.exc = "none"

\* C5: the request of put_forecast is a PUT to the forecast URL of exactly
\* the given twin, ending in "?check" when check is true and without any
\* query flag when it is false, and it carries the token manager's access
\* token as bearer.
C5_ForecastUrl ==
    call.op = "put_forecast" =>
        \A i \in ApiRequests :
            LET url  == sent[i].url
                path == <<ApiBase, "/twins/", call.args.eco_twin_id, "/forecast/external">>
            IN  /\ sent[i].method = "PUT"
                /\ SubSeq(url, 1, 4) = path
                /\ call.args.check => url = path \o <<"?check">>
                /\ ~call.args.check => url = path
                /\ sent[i].headers.Authorization = <<"Bearer ", token_store.access_token>>

C5_Witness ==
    /\ call.op = "put_forecast"
    /\ ~call.args.check
    /\ call.args.eco_twin_id = "twin2"
    /\ ApiRequests # {}
    /\ result.exc = "none"

\* C6, as stated: a call that got a non-2xx response to any of its requests
\* does not return normally.
C6_Non2xxPropagates ==
    call.op \in ClientOps =>
        ( (\E i \in 1..Len(sent) : ~Is2xx(sent[i].response.status))
          => result.exc # "none" )

\* C6, amended: a call that got a 4xx or 5xx response to any of its requests
\* raises HTTPError for that response and returns nothing.
C6_HttpErrorPropagates ==
    call.op \in ClientOps =>
        \A i \in 1..Len(sent) :
            IsHttpError(sent[i].response.status)
            => (result.exc = "HTTPError" /\ result.value = sent[i].response.status)

C6_Witness ==
    /\ call.op = "put_forecast"
    /\ Len(sent) = 2
    /\ sent[2].response.status = 500
    /\ result.exc = "HTTPError"

\* C7: when some channel is shorter than the minimum a full day needs,
\* ceil(86400 / interval), create_eco_forecast raises the validation error,
\* and the error names the first such channel in iteration order.
C7_ShortChannelNamed ==
    call.op = "create_eco_forecast" =>
        LET short == { i \in 1..Len(Channels) :
                         Len(Channels[i][2]) < Ceil(86400, call.args.interval) }
        IN  short # {} =>
              /\ result.exc = "ValueError"
              /\ \E i \in short :
                    /\ \A j \in short : i <= j
                    /\ result.value[2] = Channels[i][1]

\* C8: _get_access_token with an empty cache and a 2xx response stores one
\* record, the response's fields with expires_at = now + expires_in (3600
\* when the response has no expires_in), and returns that record's
\* access_token.
C8_FetchStores ==
    ( /\ call.op = "_get_access_token"
      /\ ~Truthy(call.store)
      /\ sent # <<>>
      /\ Is2xx(sent[1].response.status) )
    => LET data == sent[1].response.body.data IN
       /\ result.exc = "none"
       /\ Len(stored) = 1
       /\ token_store = stored[1]
       /\ token_store.expires_at =
             call.time + (IF "expires_in" \in DOMAIN data THEN int(data.expires_in) ELSE 3600)
       /\ token_store.access_token = data.access_token
       /\ result.value = token_store.access_token

C8_Witness ==
    /\ call.op = "_get_access_token"
    /\ ~Truthy(call.store)
    /\ call.time = 3601
    /\ sent # <<>>
    /\ sent[1].response.status = 200
    /\ "expires_in" \notin DOMAIN sent[1].response.body.data
    /\ token_store.expires_at = 7201

\* C9: one call sends at most one request to the identity endpoint and at
\* most one to the API, the identity request first, and a request answered
\* with an HTTP error is the last request of the call.
C9_NoRetry ==
    call.op \in ClientOps =>
        /\ Cardinality(IdentityRequests) <= 1
        /\ Cardinality(ApiRequests) <= 1
        /\ \A i \in IdentityRequests : i = 1
        /\ \A i \in 1..Len(sent) :
              IsHttpError(sent[i].response.status) => (i = Len(sent) /\ result.exc # "none")

C9_Witness ==
    /\ call.op = "get_all_twins_status"
    /\ Len(sent) = 2
    /\ IsIdentity(sent[1])
    /\ sent[2].response.status = 500
    /\ result.exc = "HTTPError"

\* C10, as stated: when the identity endpoint answers non-2xx the call sends
\* nothing to the API and the cache is as it was, store_token not called;
\* and a request to the API is sent only with a token obtained.
C10_Non2xxLeavesCache ==
    call.op \in ClientOps =>
        /\ \A i \in IdentityRequests :
              ~Is2xx(sent[i].response.status)
              => (ApiRequests = {} /\ token_store = call.store /\ stored = <<>>)
        /\ \A i \in ApiRequests :
              /\ IsTokenRecord(token_store)
              /\ sent[i].headers.Authorization = <<"Bearer ", token_store.access_token>>
              /\ \A j \in IdentityRequests : j < i

\* C10, amended: when the identity endpoint answers 4xx or 5xx the call
\* sends nothing to the API and the cache is as it was, store_token not
\* called; and a request to the API is sent only with a token obtained.
C10_HttpErrorLeavesCache ==
    call.op \in ClientOps =>
        /\ \A i \in IdentityRequests :
              IsHttpError(sent[i].response.status)
              => (ApiRequests = {} /\ token_store = call.store /\ stored = <<>>)
        /\ \A i \in ApiRequests :
              /\ IsTokenRecord(token_store)
              /\ sent[i].headers.Authorization = <<"Bearer ", token_store.access_token>>
              /\ \A j \in IdentityRequests : j < i

C10_Witness ==
    /\ call.op = "put_forecast"
    /\ Len(sent) = 1
    /\ IsIdentity(sent[1])
    /\ sent[1].response.status = 500
    /\ result.exc = "HTTPError"
    /\ token_store = None

=============================================================================
